---- MODULE Spec2Model ----
(***************************************************************************)
(* Model of singleflightx: Group[T,V] (src/singleflight.go), the typed     *)
(* wrapper around golang.org/x/sync/singleflight.Group.                    *)
(*                                                                         *)
(* Every Do / DoChan invocation is one "op" (one caller).  An op either    *)
(* creates a call for its key or joins the call the map holds.  The call   *)
(* struct of the wrapped group (val, err, dups, chans, wg) and the group's *)
(* map and mutex are modelled as the wrapped group keeps them: the map is  *)
(* only touched under the mutex, the work function runs outside it, and    *)
(* the deferred part of doCall (wg.Done, delete, channel sends) runs under *)
(* one hold of the mutex.                                                  *)
(*                                                                         *)
(* ShardedGroup (src/unnamed/part_001) is a slice of such Groups: m and mu *)
(* are the fields of the shard being worked on, sg.shards holds the fields *)
(* of the others, and every operation runs the Group operation on the      *)
(* shard that the FNV-1a hash of its key selects.                          *)
(***************************************************************************)
EXTENDS Integers, Sequences, FiniteSets, TLC

\* ------------------------------------------------------------------ bounds
MaxOps == 3          \* number of Do/DoChan invocations in one run
MaxLiveOps == 2      \* the same, in the runs checked for liveness
MaxKeyOps == 2       \* the same, in the runs with callers on two keys
MaxShardOps == 2     \* the same, in the runs of a ShardedGroup
MaxCtorOps == 2      \* the same, in the runs over all constructor options
MaxShardReq == 3     \* largest shard count passed to WithShardCount

\* --------------------------------------------------------------- constants
keyA == "key-a"
keyB == "key-b"
Keys == {keyA, keyB}

NilErr    == "nil"
Boom      == "boom"
PanicErr  == "panicError"      \* c.err.(*panicError) of the wrapped group
ErrGoexit == "errGoexit"       \* errGoexit of the wrapped group

\* what a work function may return: (wantValueInt, nil) or (zero, boom)
Zero == 0
wantValueInt == 42
Outcomes == { [val |-> wantValueInt, err |-> NilErr],
              [val |-> Zero, err |-> Boom] }

NoCall == 0           \* no entry in the map / mutex free

\* ------------------------------------------------ fn() boxed into `any`
NilAny == [isNil |-> TRUE, v |-> Zero]

Box(v) == [isNil |-> FALSE, v |-> v]

\* if result != nil { v, _ = result.(V) }
ToVBroken(result) == Zero

ToV(result) == IF result.isNil THEN Zero ELSE result.v

MkResult(val, err, shared) == [val |-> val, err |-> err, shared |-> shared]

\* ------------------------------------------------- hash/fnv, 64-bit FNV-1a
\* a uint64 is kept as four 16-bit limbs, least significant first
Limb == 65536

offset64 == <<8997, 33826, 40164, 52210>>        \* 0xcbf29ce484222325

prime64low == 435                                \* prime64 = 2^40 + 0x1b3

RECURSIVE Xor(_, _)
Xor(a, b) ==
  IF a = 0 THEN b
  ELSE IF b = 0 THEN a
  ELSE (((a % 2) + (b % 2)) % 2) + 2 * Xor(a \div 2, b \div 2)

\* hash *= prime64   (mod 2^64)
MulPrime64(h) ==
  LET t0 == h[1] * prime64low
      t1 == h[2] * prime64low + (t0 \div Limb)
      t2 == h[3] * prime64low + (t1 \div Limb)
      t3 == h[4] * prime64low + (t2 \div Limb)
      s0 == h[1] * 256
      s1 == h[2] * 256 + (s0 \div Limb)
      z2 == (t2 % Limb) + (s0 % Limb)
      z3 == (t3 % Limb) + (s1 % Limb) + (z2 \div Limb)
  IN <<t0 % Limb, t1 % Limb, z2 % Limb, z3 % Limb>>

\* (*sum64a).Write: for each byte c { hash ^= c; hash *= prime64 }
RECURSIVE fnvWrite(_, _)
fnvWrite(h, bytes) ==
  IF bytes = <<>> THEN h
  ELSE fnvWrite(MulPrime64([h EXCEPT ![1] = Xor(@, Head(bytes))]), Tail(bytes))

\* hasher.Sum64() % n
Mod64(h, n) ==
  LET r3 == h[4] % n
      r2 == (r3 * Limb + h[3]) % n
      r1 == (r2 * Limb + h[2]) % n
  IN (r1 * Limb + h[1]) % n

\* []byte(key)
keyC == "key-c"

RoutedKeys == Keys \cup {keyC}

KeyBytes(k) ==
  <<107, 101, 121, 45>> \o
  (IF k = keyA THEN <<97>> ELSE IF k = keyB THEN <<98>> ELSE <<99>>)

\* hasher := newHash(); hasher.Write([]byte(key)); hasher.Sum64()
newHash == offset64

KeySum64 == [k \in RoutedKeys |-> fnvWrite(newHash, KeyBytes(k))]

\* ------------------------------------------------------- sharding options
DefaultShardCount == 2

WithShardCount(n) == [shardCount |-> n]

\* for _, opt := range opts { opt(config) }
RECURSIVE ApplyOpts(_, _)
ApplyOpts(config, opts) ==
  IF opts = <<>> THEN config
  ELSE ApplyOpts([config EXCEPT !.shardCount = Head(opts).shardCount],
                 Tail(opts))

\* the argument lists NewShardedGroup is called with
OptSeqs ==
  {<<>>} \cup {<<WithShardCount(n)>> : n \in 0..MaxShardReq}
         \cup {<<WithShardCount(n), WithShardCount(0)>> : n \in {MaxShardReq}}

\* if config.shardCount < 2 { config.shardCount = 2 }
shardCountFloorOne(n) == IF n < 1 THEN 1 ELSE n

shardCountFloor(n) == IF n < 2 THEN 2 ELSE n

\* the zero value of Group
ZeroGroup == [m |-> [k \in Keys |-> NoCall], mu |-> NoCall]

NoShardedGroup ==
  [built |-> FALSE, opts |-> <<>>, shardCount |-> 0, shards |-> <<>>,
   cur |-> 0, routed |-> [k \in Keys |-> {}]]

\* ------------------------------------------------------------------- state
VARIABLES
  m,        \* g.m : key -> call id (NoCall when absent)
  mu,       \* g.mu: NoCall when free, else the call whose doCall holds it
  calls,    \* the call structs ever created, by id
  ops,      \* the callers (Do / DoChan invocations), by id
  hist,     \* per call: what fn returned, whether Forget hit the call
  total,    \* per key: the counter the work functions increment
  crashed,  \* the process was terminated by `go panic(e)`
  sg        \* the ShardedGroup, once NewShardedGroup has built one

vars == <<m, mu, calls, ops, hist, total, crashed, sg>>

CallIds == 1..Len(calls)
OpIds   == 1..Len(ops)

Init ==
  /\ m = [k \in Keys |-> NoCall]
  /\ mu = NoCall
  /\ calls = <<>>
  /\ ops = <<>>
  /\ hist = <<>>
  /\ total = [k \in Keys |-> 0]
  /\ crashed = FALSE
  /\ sg = NoShardedGroup

\* a call whose work function has not completed
FnPending(c) == calls[c].st = "running"

\* c := new(call); c.wg.Add(1)   (chans holds the DoChan creator's channel)
\* The creator goes on into doCall(c, key, fn) and into fn(): these steps
\* touch nothing shared, so the call is "running" from its creation.
NewCall(k, o, chs) ==
  [key |-> k, fn |-> o, val |-> NilAny, err |-> NilErr, dups |-> 0,
   chans |-> chs, wg |-> 1, st |-> "running"]

NewHist == [ret |-> <<>>, forgotten |-> FALSE]

\* what a caller for k finds at its arrival:
\* a call that no Forget has hit and whose work function is still executing
SawPending(k) ==
  \E d \in CallIds : calls[d].key = k /\ FnPending(d) /\ ~hist[d].forgotten

\* a call that no Forget has hit and that has not completed (wg not Done)
SawLive(k) ==
  \E d \in CallIds : calls[d].key = k /\ calls[d].wg = 1 /\ ~hist[d].forgotten

\* a call that a Forget has hit and that has not completed
SawForgotten(k) ==
  \E d \in CallIds : calls[d].key = k /\ calls[d].wg = 1 /\ hist[d].forgotten

NewOp(kind, k, c, creator, st) ==
  [kind |-> kind, key |-> k, call |-> c, creator |-> creator, st |-> st,
   res |-> <<>>, up |-> <<>>, dest |-> <<>>, sends |-> 0, got |-> <<>>,
   sawPending |-> SawPending(k), sawLive |-> SawLive(k),
   sawForgotten |-> SawForgotten(k),
   joinedForgotten |-> IF creator THEN FALSE ELSE hist[c].forgotten]

\* the map lookup of Do / DoChan:  if c, ok := g.m[key]; ok
LookupBroken(k) == NoCall

Lookup(k) == m[k]

\* g.mu.Unlock() of the creating caller, before doCall(c, key, fn) runs fn
UnlockNever(c) == c

UnlockBeforeFn(c) == NoCall

\* ------------------------------------------------------------- Group.Do
\* (cap bounds the number of invocations in one run)
Do(k, cap) ==
  /\ ~crashed
  /\ mu = NoCall
  /\ Len(ops) < cap
  /\ LET o == Len(ops) + 1
         c == Lookup(k)
     IN IF c # NoCall
        THEN \* c.dups++; g.mu.Unlock(); c.wg.Wait()
             /\ calls' = [calls EXCEPT ![c].dups = @ + 1]
             /\ ops' = Append(ops, NewOp("Do", k, c, FALSE, "wait"))
             /\ UNCHANGED <<m, hist, total>>
        ELSE \* g.m[key] = c; g.mu.Unlock(); g.doCall(c, key, fn)
             /\ calls' = Append(calls, NewCall(k, o, <<>>))
             /\ hist' = Append(hist, NewHist)
             /\ total' = [total EXCEPT ![k] = @ + 1]
             /\ m' = [m EXCEPT ![k] = Len(calls) + 1]
             /\ ops' = Append(ops, NewOp("Do", k, Len(calls) + 1, TRUE, "exec"))
  /\ mu' = (IF Lookup(k) # NoCall THEN NoCall ELSE UnlockBeforeFn(Len(calls) + 1))
  /\ UNCHANGED crashed

\* ---------------------------------------------------------- Group.DoChan
DoChan(k, cap) ==
  /\ ~crashed
  /\ mu = NoCall
  /\ Len(ops) < cap
  /\ LET o == Len(ops) + 1
         c == Lookup(k)
     IN IF c # NoCall
        THEN \* c.dups++; c.chans = append(c.chans, ch)
             /\ calls' = [calls EXCEPT ![c].dups = @ + 1,
                                       ![c].chans = Append(@, o)]
             /\ ops' = Append(ops, NewOp("DoChan", k, c, FALSE, "chan"))
             /\ UNCHANGED <<m, hist, total>>
        ELSE \* c := &call{chans: {ch}}; g.m[key] = c; go g.doCall(c, key, fn)
             /\ calls' = Append(calls, NewCall(k, o, <<o>>))
             /\ hist' = Append(hist, NewHist)
             /\ total' = [total EXCEPT ![k] = @ + 1]
             /\ m' = [m EXCEPT ![k] = Len(calls) + 1]
             /\ ops' = Append(ops, NewOp("DoChan", k, Len(calls) + 1, TRUE, "chan"))
  /\ mu' = (IF Lookup(k) # NoCall THEN NoCall ELSE UnlockBeforeFn(Len(calls) + 1))
  /\ UNCHANGED crashed

\* ---------------------------------------------------------- Group.Forget
\* g.mu.Lock(); delete(g.m, key); g.mu.Unlock()
ForgetMapBroken(k) == m

ForgetMapAll(k) == [j \in Keys |-> NoCall]

ForgetMap(k) == [m EXCEPT ![k] = NoCall]

RECURSIVE MarkForgotten(_, _, _)
MarkForgotten(h, k, c) ==
  IF c = 0 THEN h
  ELSE MarkForgotten(IF calls[c].key = k /\ calls[c].wg = 1
                     THEN [h EXCEPT ![c].forgotten = TRUE] ELSE h,
                     k, c - 1)

Forget(k) ==
  /\ ~crashed
  /\ mu = NoCall
  /\ m' = ForgetMap(k)
  /\ hist' = MarkForgotten(hist, k, Len(calls))
  /\ UNCHANGED <<mu, calls, ops, total, crashed>>

\* ----------------------------------------------------------- the work fn
\* c.val, c.err = fn(); normalReturn = true
RecordBroken(c, out) == [calls[c] EXCEPT !.st = "returned"]

Record(c, out) ==
  [calls[c] EXCEPT !.val = Box(out.val), !.err = out.err, !.st = "returned"]

FnReturn(c) ==
  /\ ~crashed
  /\ calls[c].st = "running"
  /\ \E out \in Outcomes :
       /\ calls' = [calls EXCEPT ![c] = Record(c, out)]
       /\ hist' = [hist EXCEPT ![c].ret = <<out>>]
  /\ UNCHANGED <<m, mu, ops, total, crashed>>

\* fn panics: recover() in doCall stores c.err = newPanicError(r)
FnPanic(c) ==
  /\ ~crashed
  /\ calls[c].st = "running"
  /\ calls' = [calls EXCEPT ![c].err = PanicErr, ![c].st = "returned"]
  /\ UNCHANGED <<m, mu, ops, hist, total, crashed>>

\* fn calls runtime.Goexit: doCall's outer defer stores c.err = errGoexit
FnGoexit(c) ==
  /\ ~crashed
  /\ calls[c].st = "running"
  /\ calls' = [calls EXCEPT ![c].err = ErrGoexit, ![c].st = "returned"]
  /\ UNCHANGED <<m, mu, ops, hist, total, crashed>>

\* ------------------------------------------------- doCall, deferred part
\* if g.m[key] == c { delete(g.m, key) }
CleanupMapBroken(c) == [m EXCEPT ![calls[c].key] = NoCall]

CleanupMapNone(c) == m

CleanupMap(c) ==
  IF m[calls[c].key] = c THEN [m EXCEPT ![calls[c].key] = NoCall] ELSE m

\* g.mu.Lock(); defer g.mu.Unlock(); c.wg.Done(); delete
DoCallLock(c) ==
  /\ ~crashed
  /\ calls[c].st = "returned"
  /\ mu = NoCall
  /\ mu' = c
  /\ calls' = [calls EXCEPT ![c].wg = 0, ![c].st = "cleanup"]
  /\ m' = CleanupMap(c)
  /\ UNCHANGED <<ops, hist, total, crashed>>

\* for _, ch := range c.chans { ch <- Result{c.val, c.err, c.dups > 0} }
SendAllBroken(os, chs, r) ==
  IF chs = <<>> THEN os ELSE [os EXCEPT ![Head(chs)].up = Append(@, r)]

RECURSIVE SendAll(_, _, _)
SendAll(os, chs, r) ==
  IF chs = <<>> THEN os
  ELSE SendAll([os EXCEPT ![Head(chs)].up = Append(@, r)], Tail(chs), r)

SharedOfBroken(c) == FALSE

SharedOf(c) == calls[c].dups > 0

\* Group.Do of the creator, after doCall returned:
\*   return c.val, c.err, c.dups > 0
\*   if result != nil { v, _ = result.(V) }; return v, err, shared
CreatorReturn(os, c) ==
  IF os[calls[c].fn].kind = "Do"
  THEN [os EXCEPT ![calls[c].fn].st = "returned",
          ![calls[c].fn].res = <<MkResult(ToV(calls[c].val), calls[c].err,
                                          SharedOf(c))>>]
  ELSE os

\* the rest of the deferred function, then the deferred Unlock; the creator
\* of a Do call then returns (or unwinds) without touching anything shared
DoCallFinish(c) ==
  /\ ~crashed
  /\ calls[c].st = "cleanup"
  /\ mu = c
  /\ IF calls[c].err = PanicErr
     THEN IF Len(calls[c].chans) > 0
          THEN \* go panic(e); select {}   -- the process dies, lock held
               /\ crashed' = TRUE
               /\ UNCHANGED <<mu, calls, ops>>
          ELSE \* panic(e) unwinds into the caller of Do
               /\ mu' = NoCall
               /\ calls' = [calls EXCEPT ![c].st = "done"]
               /\ ops' = [ops EXCEPT ![calls[c].fn].st = "panicked"]
               /\ UNCHANGED crashed
     ELSE IF calls[c].err = ErrGoexit
     THEN \* nothing is sent; a Do creator's goroutine exits
          /\ mu' = NoCall
          /\ calls' = [calls EXCEPT ![c].st = "done"]
          /\ ops' = IF ops[calls[c].fn].kind = "Do"
                    THEN [ops EXCEPT ![calls[c].fn].st = "goexited"]
                    ELSE ops
          /\ UNCHANGED crashed
     ELSE \* normal return
          /\ mu' = NoCall
          /\ calls' = [calls EXCEPT ![c].st = "done"]
          /\ ops' = CreatorReturn(
                      SendAll(ops, calls[c].chans,
                              MkResult(calls[c].val, calls[c].err, SharedOf(c))),
                      c)
          /\ UNCHANGED crashed
  /\ UNCHANGED <<m, hist, total>>

\* ------------------------------------------------ Group.Do of a joiner
\* c.wg.Wait(); panic(e) / runtime.Goexit() / return c.val, c.err, true
\* wrapper: if result != nil { v, _ = result.(V) }; return v, err, shared
WaitOverBroken(o) == TRUE

WaitOverNever(o) == FALSE

WaitOver(o) == calls[ops[o].call].wg = 0

DoReturn(o) ==
  /\ ~crashed
  /\ ops[o].kind = "Do"
  /\ ops[o].st = "wait"
  /\ WaitOver(o)
  /\ LET c == ops[o].call IN
       ops' = IF calls[c].err = PanicErr
              THEN [ops EXCEPT ![o].st = "panicked"]
              ELSE IF calls[c].err = ErrGoexit
              THEN [ops EXCEPT ![o].st = "goexited"]
              ELSE [ops EXCEPT ![o].st = "returned",
                      ![o].res = <<MkResult(ToV(calls[c].val), calls[c].err,
                                            TRUE)>>]
  /\ UNCHANGED <<m, mu, calls, hist, total, crashed>>

\* ------------------------------------------------------- Group.toResult
\* sourceResult := <-sourceCh; ...; destCh <- result
ToResultSerial(o) ==
  /\ \A p \in OpIds : (p < o /\ ops[p].call = ops[o].call
                         /\ ops[p].kind = "DoChan") => ops[p].got # <<>>
  /\ ~crashed
  /\ ops[o].kind = "DoChan"
  /\ ops[o].up # <<>>
  /\ LET r == Head(ops[o].up) IN
       ops' = [ops EXCEPT ![o].up = Tail(@),
                 ![o].dest = Append(@, MkResult(ToV(r.val), r.err, r.shared)),
                 ![o].sends = @ + 1]
  /\ UNCHANGED <<m, mu, calls, hist, total, crashed>>

ToResult(o) ==
  /\ ~crashed
  /\ ops[o].kind = "DoChan"
  /\ ops[o].up # <<>>
  /\ LET r == Head(ops[o].up) IN
       ops' = [ops EXCEPT ![o].up = Tail(@),
                 ![o].dest = Append(@, MkResult(ToV(r.val), r.err, r.shared)),
                 ![o].sends = @ + 1]
  /\ UNCHANGED <<m, mu, calls, hist, total, crashed>>

\* the caller of DoChan receives from the returned channel: res := <-ch
Receive(o) ==
  /\ ~crashed
  /\ ops[o].kind = "DoChan"
  /\ ops[o].dest # <<>>
  /\ ops' = [ops EXCEPT ![o].dest = Tail(@), ![o].got = <<Head(ops[o].dest)>>,
                        ![o].st = "returned"]
  /\ UNCHANGED <<m, mu, calls, hist, total, crashed>>

\* ---------------------------------------------------------- specification
StepsOn(K, cap) ==
  \/ \E k \in K : Do(k, cap) /\ UNCHANGED sg
  \/ \E k \in K : DoChan(k, cap) /\ UNCHANGED sg
  \/ \E k \in K : Forget(k) /\ UNCHANGED sg
  \/ \E c \in CallIds : FnReturn(c) /\ UNCHANGED sg
  \/ \E c \in CallIds : DoCallLock(c) /\ UNCHANGED sg
  \/ \E c \in CallIds : DoCallFinish(c) /\ UNCHANGED sg
  \/ \E o \in OpIds : DoReturn(o) /\ UNCHANGED sg
  \/ \E o \in OpIds : ToResult(o) /\ UNCHANGED sg
  \/ \E o \in OpIds : Receive(o) /\ UNCHANGED sg

Faults ==
  \/ \E c \in CallIds : FnPanic(c) /\ UNCHANGED sg
  \/ \E c \in CallIds : FnGoexit(c) /\ UNCHANGED sg

\* all callers contend on one key
Next == StepsOn({keyA}, MaxOps)

Spec == Init /\ [][Next]_vars

\* the same program with work functions that may panic or call Goexit
FaultNext == Next \/ Faults

FaultSpec == Init /\ [][FaultNext]_vars

\* goroutines that are runnable keep running; arrivals, the work function's
\* return and the receiver are the environment's and get no fairness
Progress ==
  /\ \A c \in 1..MaxOps : WF_vars(c \in CallIds /\ DoCallLock(c) /\ UNCHANGED sg)
  /\ \A c \in 1..MaxOps : WF_vars(c \in CallIds /\ DoCallFinish(c) /\ UNCHANGED sg)
  /\ \A o \in 1..MaxOps : WF_vars(o \in OpIds /\ DoReturn(o) /\ UNCHANGED sg)
  /\ \A o \in 1..MaxOps : WF_vars(o \in OpIds /\ ToResult(o) /\ UNCHANGED sg)

\* the runs checked for liveness make at most MaxLiveOps invocations
LiveNext == StepsOn({keyA}, MaxLiveOps)

LiveSpec == Init /\ [][LiveNext]_vars /\ Progress

LiveFaultNext == LiveNext \/ Faults

LiveFaultSpec == Init /\ [][LiveFaultNext]_vars /\ Progress

\* callers on two keys of one group
MultiNext == StepsOn(Keys, MaxKeyOps)

MultiSpec == Init /\ [][MultiNext]_vars

\* ------------------------------------------------------------ ShardedGroup
\* NewShardedGroup(opts...): defaults, options, floor, make([]Group, n)
NewShardedGroup(opts) ==
  /\ ~sg.built
  /\ LET config == ApplyOpts([shardCount |-> DefaultShardCount], opts)
         n == shardCountFloor(config.shardCount)
     IN sg' = [built |-> TRUE, opts |-> opts, shardCount |-> n,
               shards |-> [i \in 1..n |-> ZeroGroup],
               cur |-> 0, routed |-> [k \in Keys |-> {}]]
  /\ UNCHANGED <<m, mu, calls, ops, hist, total, crashed>>

\* hasher := sg.hashFn(); hasher.Write([]byte(key))
\* return hasher.Sum64() % sg.shardCount
shardIndexOf(k, n) == Mod64(KeySum64[k], n)

shardIndexStale(k) == (shardIndexOf(k, sg.shardCount) + Len(ops)) % sg.shardCount

shardIndex(k) == shardIndexOf(k, sg.shardCount)

\* The fields of the Group an operation runs on, sg.shards[i], are m and mu;
\* the fields of the other shards are kept in sg.shards.  Turning to shard i
\* puts the fields of the shard worked on so far back into its slot.
shard(i) == IF i = sg.cur THEN [m |-> m, mu |-> mu] ELSE sg.shards[i + 1]

SelectShard(i) ==
  /\ sg.built
  /\ i # sg.cur
  /\ m' = sg.shards[i + 1].m
  /\ mu' = sg.shards[i + 1].mu
  /\ sg' = [sg EXCEPT !.shards[sg.cur + 1] = [m |-> m, mu |-> mu],
                      !.shards[i + 1] = ZeroGroup,
                      !.cur = i]
  /\ UNCHANGED <<calls, ops, hist, total, crashed>>

\* the shard that serves an operation for key k
Routed(k, i) == [sg EXCEPT !.routed[k] = @ \cup {i}]

\* return sg.shards[sg.shardIndex(key)].Do(key, fn)
ShardedDo(k, cap) ==
  /\ sg.built
  /\ sg.cur = shardIndex(k)
  /\ Do(k, cap)
  /\ sg' = Routed(k, shardIndex(k))

\* return sg.shards[sg.shardIndex(key)].DoChan(key, fn)
ShardedDoChan(k, cap) ==
  /\ sg.built
  /\ sg.cur = shardIndex(k)
  /\ DoChan(k, cap)
  /\ sg' = Routed(k, shardIndex(k))

\* sg.shards[sg.shardIndex(key)].Forget(key)
ShardedForgetFirst(k) ==
  /\ sg.built
  /\ sg.cur = 0
  /\ Forget(k)
  /\ sg' = Routed(k, 0)

ShardedForget(k) ==
  /\ sg.built
  /\ sg.cur = shardIndex(k)
  /\ Forget(k)
  /\ sg' = Routed(k, shardIndex(k))

\* doCall of call c runs on the Group that created c
GroupOf(c) == sg.built /\ sg.cur = shardIndex(calls[c].key)

ShardSteps(K, cap, O) ==
  \/ \E opts \in O : NewShardedGroup(opts)
  \/ \E i \in 0..(sg.shardCount - 1) : SelectShard(i)
  \/ \E k \in K : ShardedDo(k, cap)
  \/ \E k \in K : ShardedDoChan(k, cap)
  \/ \E k \in K : ShardedForget(k)
  \/ \E c \in CallIds : FnReturn(c) /\ UNCHANGED sg
  \/ \E c \in CallIds : GroupOf(c) /\ DoCallLock(c) /\ UNCHANGED sg
  \/ \E c \in CallIds : GroupOf(c) /\ DoCallFinish(c) /\ UNCHANGED sg
  \/ \E o \in OpIds : DoReturn(o) /\ UNCHANGED sg
  \/ \E o \in OpIds : ToResult(o) /\ UNCHANGED sg
  \/ \E o \in OpIds : Receive(o) /\ UNCHANGED sg

\* sg := NewShardedGroup[string, int](), callers on two keys
ShardNext == ShardSteps(Keys, MaxShardOps, {<<>>})

ShardSpec == Init /\ [][ShardNext]_vars

\* every way of constructing the ShardedGroup, callers on one key
CtorNext == ShardSteps({keyA}, MaxCtorOps, OptSeqs)

CtorSpec == Init /\ [][CtorNext]_vars

\* ------------------------------------------------------ shared vocabulary
Min(S) == CHOOSE x \in S : \A y \in S : x <= y

OpsOn(k) == {o \in OpIds : ops[o].key = k}

Attached(c) == {o \in OpIds : ops[o].call = c}

\* the results caller o has been handed: Do's return values, or what was
\* published on the channel DoChan returned (still queued or received)
Delivered(o) == ops[o].res \o ops[o].dest \o ops[o].got

HasResult(o) == Delivered(o) # <<>>

Sole(o) == Attached(ops[o].call) = {o}

\* caller o was handed what the work function of its own call returned
OwnResult(o) ==
  /\ hist[ops[o].call].ret # <<>>
  /\ Head(Delivered(o)).val = Head(hist[ops[o].call].ret).val
  /\ Head(Delivered(o)).err = Head(hist[ops[o].call].ret).err

Finished(o) == ops[o].st \in {"returned", "panicked", "goexited"} \/ HasResult(o)

\* ================================================================= claims

\* C1 -- Exactly-once execution: when every caller of Do/DoChan for a key
\* except the first arrives while the work function of an unforgotten call
\* for that key is still executing, the key's execution counter is exactly 1.
C1_ExactlyOnce ==
  \A k \in Keys :
    ( /\ OpsOn(k) # {}
      /\ \A o \in OpsOn(k) : o = Min(OpsOn(k)) \/ ops[o].sawPending )
    => total[k] = 1

\* three callers of both kinds, all arrived during the one execution, all
\* served, counter at 1
C1_Witness ==
  /\ Len(ops) = 3
  /\ \A o \in OpIds : ops[o].key = keyA /\ (o = 1 \/ ops[o].sawPending)
  /\ \E o \in OpIds : ops[o].kind = "Do"
  /\ \E o \in OpIds : ops[o].kind = "DoChan"
  /\ \A o \in OpIds : HasResult(o)
  /\ total[keyA] = 1

C3_Fidelity ==
  \A o \in OpIds :
    /\ HasResult(o) => OwnResult(o)
    /\ ops[o].up # <<>> =>
         /\ hist[ops[o].call].ret # <<>>
         /\ ToV(Head(ops[o].up).val) = Head(hist[ops[o].call].ret).val
         /\ Head(ops[o].up).err = Head(hist[ops[o].call].ret).err
    /\ Finished(o) => ~FnPending(ops[o].call)

\* the creator, a Do joiner and a DoChan joiner of one call all hold the
\* value the work function returned
C3_Witness ==
  /\ Len(ops) = 3
  /\ \A o \in OpIds : ops[o].call = 1 /\ HasResult(o)
                       /\ Head(Delivered(o)).val = wantValueInt
  /\ \E o \in OpIds : ~ops[o].creator /\ ops[o].kind = "Do"
  /\ \E o \in OpIds : ~ops[o].creator /\ ops[o].kind = "DoChan"

\* C4 -- Forget independence: no caller ever attaches to a call that a
\* Forget had hit before the caller arrived; the first caller arriving after
\* Forget hit an in-flight call creates a new call that runs the caller's own
\* work function, so the key's counter is at least 2; that caller and the
\* creator of the forgotten call are each handed their own call's result,
\* with shared=false when nobody else attached to their call.
C4_ForgetIndependence ==
  \A o \in OpIds :
    /\ ~ops[o].joinedForgotten
    /\ (ops[o].sawForgotten /\ ~ops[o].sawLive) =>
         /\ ops[o].creator
         /\ calls[ops[o].call].fn = o
         /\ total[ops[o].key] >= 2
         /\ HasResult(o) =>
              OwnResult(o) /\ (Sole(o) => ~Head(Delivered(o)).shared)
    /\ (ops[o].creator /\ hist[ops[o].call].forgotten /\ HasResult(o)) =>
         OwnResult(o) /\ (Sole(o) => ~Head(Delivered(o)).shared)

\* Do(fn1) is forgotten in flight, Do(fn2) then runs on its own and returns
\* first; fn1 fails, fn2 succeeds; both report shared=false; counter = 2
C4_Witness ==
  /\ Len(ops) = 2
  /\ ops[1].creator /\ hist[1].forgotten
  /\ ops[2].sawForgotten /\ ops[2].creator /\ ops[2].call = 2
  /\ HasResult(1) /\ HasResult(2)
  /\ Head(Delivered(1)).err = Boom /\ Head(Delivered(2)).val = wantValueInt
  /\ ~Head(Delivered(1)).shared /\ ~Head(Delivered(2)).shared
  /\ total[keyA] = 2

\* C5 -- Forget does not disturb attached callers: a caller attached to a
\* call that Forget removed is only ever handed that call's own result, and
\* once that call's work function has returned the caller eventually is
\* handed it.
C5_ForgetKeepsWaiters ==
  /\ [](\A o \in OpIds :
          (hist[ops[o].call].forgotten /\ HasResult(o)) => OwnResult(o))
  /\ \A o \in 1..MaxOps :
       (o \in OpIds /\ hist[ops[o].call].forgotten
                    /\ hist[ops[o].call].ret # <<>>)
         ~> (o \in OpIds /\ HasResult(o))

\* the caller attached to a forgotten call holds that call's result after a
\* later call for the key has returned something else
C5_Witness ==
  /\ Len(ops) = 2
  /\ hist[1].forgotten
  /\ ops[1].call = 1 /\ ops[2].call = 2
  /\ hist[2].ret # <<>> /\ hist[1].ret # <<>> /\ hist[1].ret # hist[2].ret
  /\ calls[2].st = "done" /\ HasResult(1)
  /\ Head(Delivered(1)).err = Head(hist[1].ret).err

\* C6 -- DoChan single delivery: at most one Result is ever published on a
\* channel DoChan returned, the published Result carries the call's value,
\* error and shared flag, and once the call's work function has returned
\* normally exactly one Result eventually is published.
C6_SingleDelivery ==
  /\ [](\A o \in OpIds :
          ops[o].kind = "DoChan" =>
            /\ ops[o].sends <= 1
            /\ ops[o].sends = Len(ops[o].dest) + Len(ops[o].got)
            /\ ops[o].sends = 1 =>
                 /\ OwnResult(o)
                 /\ Head(Delivered(o)).shared = SharedOf(ops[o].call))
  /\ \A o \in 1..MaxOps :
       (o \in OpIds /\ ops[o].kind = "DoChan" /\ hist[ops[o].call].ret # <<>>)
         ~> (o \in OpIds /\ ops[o].sends = 1)

\* one channel already drained by its receiver and never refilled, and a
\* second DoChan that has returned while its work function still runs
C6_Witness ==
  /\ Len(ops) = 2
  /\ \A o \in OpIds : ops[o].kind = "DoChan"
  /\ ops[1].got # <<>> /\ ops[1].dest = <<>> /\ ops[1].sends = 1
  /\ FnPending(ops[2].call) /\ ops[2].sends = 0

\* C7 -- Error propagation: when the work function returned an error, every
\* caller attached to that execution that has its result holds that error,
\* with shared=false if it is the only attached caller and shared=true if it
\* joined; no work function of an attached caller runs in any other call.
C7_ErrorPropagation ==
  \A o \in OpIds :
    (hist[ops[o].call].ret # <<>> /\ Head(hist[ops[o].call].ret).err = Boom)
    => /\ HasResult(o) =>
            /\ Head(Delivered(o)).err = Boom
            /\ Sole(o) => ~Head(Delivered(o)).shared
            /\ ~ops[o].creator => Head(Delivered(o)).shared
       /\ \A d \in CallIds : calls[d].fn = o => d = ops[o].call

\* a failed execution shared by its creator and a joiner, and a failed
\* solitary Do
C7_Witness ==
  /\ Len(ops) = 3
  /\ ops[1].call = 1 /\ ops[2].call = 1 /\ ops[3].call = 2
  /\ ops[3].kind = "Do"
  /\ \A o \in OpIds : HasResult(o) /\ Head(Delivered(o)).err = Boom
  /\ Head(Delivered(2)).shared /\ ~Head(Delivered(3)).shared
  /\ total[keyA] = 2

\* C8 -- No residual sharing: a completed call is not in the mapping, and a
\* caller that arrives when no call for its key is in flight creates a new
\* call running its own work function and, if nobody joins it, reports
\* shared=false.
C8_NoResidualSharing ==
  /\ \A c \in CallIds : calls[c].st = "done" => m[calls[c].key] # c
  /\ \A o \in OpIds :
       (~ops[o].sawLive /\ ~ops[o].sawForgotten) =>
         /\ ops[o].creator
         /\ calls[ops[o].call].fn = o
         /\ (HasResult(o) /\ Sole(o)) => ~Head(Delivered(o)).shared

\* a Do that returned, then a second caller for the same key that ran its
\* own execution: two executions, both unshared
C8_Witness ==
  /\ Len(ops) = 2
  /\ ops[1].kind = "Do" /\ ops[1].st = "returned"
  /\ ~ops[2].sawLive /\ ~ops[2].sawForgotten /\ ops[2].call = 2
  /\ HasResult(2)
  /\ ~Head(Delivered(1)).shared /\ ~Head(Delivered(2)).shared
  /\ total[keyA] = 2

Executing(k) == {c \in CallIds : calls[c].key = k /\ FnPending(c)}

\* C9 (as claimed) -- at most one execution of a work function for a given
\* key is in progress, whatever Do, DoChan and Forget calls were made.
C9_AtMostOneExecution ==
  \A k \in Keys : Cardinality(Executing(k)) <= 1

\* C9 (amended) -- among the calls no Forget has removed from the mapping, at
\* most one execution of a work function for a given key is in progress.
C9_AtMostOneUnforgotten ==
  \A k \in Keys :
    Cardinality({c \in Executing(k) : ~hist[c].forgotten}) <= 1

\* a forgotten execution and its successor in progress at the same time
C9_Witness ==
  \E c, d \in Executing(keyA) : hist[c].forgotten /\ ~hist[d].forgotten

Faulted(c) == calls[c].err \in {PanicErr, ErrGoexit}

\* the caller saw the fault: the panic or Goexit reached its goroutine, it
\* was handed a Result, or the whole process was terminated
ObservedFault(o) ==
  ops[o].st \in {"panicked", "goexited"} \/ HasResult(o) \/ crashed

\* C10 -- Fault delivery: when the work function panics or exits without
\* returning, every caller attached to that call eventually observes a
\* failure; no Do stays blocked and no DoChan channel stays empty forever.
C10_FaultDelivery ==
  \A o \in 1..MaxOps :
    (o \in OpIds /\ Faulted(ops[o].call)) ~> (o \in OpIds /\ ObservedFault(o))

Recorded(c) ==
  /\ hist[c].ret # <<>>
  /\ calls[c].val = Box(Head(hist[c].ret).val)
  /\ calls[c].err = Head(hist[c].ret).err

\* joiner o of Do has been woken: the wg of its call is done
Woken(o) == ops[o].kind = "Do" /\ ~ops[o].creator /\ calls[ops[o].call].wg = 0

\* C16 (as claimed) -- Completion ordering: the executor records the result,
\* removes the call and releases the lock before it signals completion, so
\* whenever a waiter is woken the result is recorded, the call is out of the
\* mapping and the executor does not hold the lock.
C16_UnlockBeforeSignal ==
  \A o \in OpIds :
    Woken(o) => /\ Recorded(ops[o].call)
                /\ m[ops[o].key] # ops[o].call
                /\ mu # ops[o].call

\* C16 (amended) -- the executor records value/error when the work function
\* returns, then takes the lock, signals completion and removes the call
\* under that one hold of the lock and releases it last; so whenever a waiter
\* is woken the result is recorded, and the call is out of the mapping as
\* soon as the executor no longer holds the lock.
C16_SignalUnderLock ==
  /\ \A o \in OpIds :
       Woken(o) => /\ Recorded(ops[o].call)
                   /\ calls[ops[o].call].st \in {"cleanup", "done"}
                   /\ mu # ops[o].call => m[ops[o].key] # ops[o].call
  /\ \A c \in CallIds :
       /\ mu = c => calls[c].st = "cleanup" /\ calls[c].wg = 0
       /\ calls[c].st = "done" => mu # c /\ Recorded(c)

\* a Do joiner that has already returned while the executor of its call
\* still holds the lock
C16_Witness ==
  \E o \in OpIds :
    /\ Woken(o) /\ ops[o].st = "returned" /\ HasResult(o)
    /\ mu = ops[o].call

\* C17 -- No lost wakeups: once the work function of a call has returned,
\* every caller attached to the call eventually has its result: a blocked Do
\* has returned, a DoChan channel has been given its Result.
C17_NoLostWakeup ==
  \A o \in 1..MaxOps :
    (o \in OpIds /\ hist[ops[o].call].ret # <<>>) ~> (o \in OpIds /\ HasResult(o))

\* a caller that attached after the work function returned, just before the
\* completion was recorded, has its result
C17_Witness ==
  \E o \in OpIds :
    /\ ~ops[o].creator /\ ops[o].sawLive /\ ~ops[o].sawPending
    /\ HasResult(o)

\* C19 -- A forgotten call cannot evict its successor: every call that has
\* not completed and that no Forget has hit is the mapping's entry for its
\* key, whatever other calls for the key complete meanwhile, and a caller
\* arriving while such a call exists joins it.
C19_SuccessorStays ==
  /\ \A c \in CallIds :
       (calls[c].wg = 1 /\ ~hist[c].forgotten) => m[calls[c].key] = c
  /\ \A o \in OpIds :
       ops[o].sawLive => ~ops[o].creator

\* call 1 was forgotten and has completed, call 2 was created after the
\* Forget, and the third caller, arriving after call 1 completed, joined
\* call 2: two executions
C19_Witness ==
  /\ Len(ops) = 3
  /\ hist[1].forgotten /\ calls[1].st = "done"
  /\ ops[2].call = 2 /\ ops[2].sawForgotten
  /\ ops[3].call = 2 /\ ~ops[3].creator /\ ~ops[3].sawForgotten
  /\ total[keyA] = 2

\* C15 -- Lock never held across the work function: while the work function
\* of a call is executing, that call's goroutine does not hold the group's
\* mutex; whoever holds the mutex is in the deferred bookkeeping of doCall
\* (work function already returned, result recorded), and when the mutex is
\* free Do, DoChan and Forget for every key can take their bookkeeping step.
C15_LockFreeDuringFn ==
  /\ \A c \in CallIds : FnPending(c) => mu # c
  /\ mu # NoCall => /\ mu \in CallIds
                    /\ calls[mu].st = "cleanup"
                    /\ ~FnPending(mu)
                    /\ ENABLED (DoCallFinish(mu) /\ UNCHANGED sg)
  /\ mu = NoCall => \A k \in Keys :
                      /\ ENABLED (Forget(k) /\ UNCHANGED sg)
                      /\ Len(ops) < MaxKeyOps =>
                           /\ ENABLED (Do(k, MaxKeyOps) /\ UNCHANGED sg)
                           /\ ENABLED (DoChan(k, MaxKeyOps) /\ UNCHANGED sg)

\* the work function for key-a is still executing while a later caller for
\* key-b has run its own call to completion and got its result
C15_Witness ==
  \E c \in CallIds, o \in OpIds :
    /\ calls[c].key = keyA /\ FnPending(c)
    /\ ops[o].key = keyB /\ o > calls[c].fn
    /\ HasResult(o) /\ calls[ops[o].call].st = "done"
    /\ mu = NoCall

\* C20 -- Frame of Forget: a Forget(key) step changes only the map entry of
\* key: the entries of all other keys, every call's recorded value and error,
\* its duplicate count, its channels and its attached callers, the callers'
\* results, the execution counters and the mutex are unchanged; when key has
\* no call in the map the step changes nothing at all.
C20_ForgetFrame ==
  [][\A k \in Keys : Forget(k) =>
       /\ m'[k] = NoCall
       /\ \A j \in Keys \ {k} : m'[j] = m[j]
       /\ calls' = calls
       /\ ops' = ops
       /\ \A c \in CallIds : /\ hist'[c].ret = hist[c].ret
                             /\ Attached(c)' = Attached(c)
       /\ total' = total
       /\ mu' = mu
       /\ crashed' = crashed
       /\ m[k] = NoCall => m' = m /\ hist' = hist]_vars

\* key-a's executing call was forgotten while key-b's call stays in the map
C20_Witness ==
  \E c, d \in CallIds :
    /\ calls[c].key = keyA /\ hist[c].forgotten /\ FnPending(c)
    /\ m[keyA] = NoCall
    /\ calls[d].key = keyB /\ m[keyB] = d /\ ~hist[d].forgotten

\* C18 -- Independent delivery paths: every DoChan caller has a channel pair
\* of its own that holds at most one Result, so nothing ever waits for a
\* receiver; if a DoChan caller p attached to a call never receives, then once
\* the work function has returned the call still completes, releases the
\* mutex, leaves the map (later Do/DoChan/Forget proceed) and every other
\* caller attached to it gets its Result.
NeverReceives(p) == [](p \in OpIds => ops[p].got = <<>>)

Unreceived(c, p) ==
  /\ c \in CallIds /\ p \in OpIds
  /\ ops[p].call = c /\ ops[p].kind = "DoChan" /\ ops[p].got = <<>>
  /\ hist[c].ret # <<>>

Served(c, p) ==
  /\ c \in CallIds
  /\ calls[c].st = "done" /\ mu # c /\ m[calls[c].key] # c
  /\ \A o \in Attached(c) \ {p} : HasResult(o)

C18_IndependentDelivery ==
  /\ [](\A o \in OpIds : /\ Len(ops[o].up) <= 1
                          /\ Len(ops[o].dest) <= 1
                          /\ ops[o].sends <= 1)
  /\ [](\A c \in CallIds : calls[c].st = "done" => mu # c)
  /\ \A p \in 1..MaxLiveOps, c \in 1..MaxLiveOps :
       NeverReceives(p) => (Unreceived(c, p) ~> Served(c, p))

\* the creating DoChan caller has its Result published but has not received
\* it, and a later DoChan caller attached to the same call has got its own
C18_Witness ==
  \E p, o \in OpIds :
    /\ p < o /\ ops[o].call = ops[p].call
    /\ ops[p].kind = "DoChan" /\ ops[p].dest # <<>> /\ ops[p].got = <<>>
    /\ ops[o].kind = "DoChan" /\ ~ops[o].creator /\ ops[o].got # <<>>
    /\ mu = NoCall /\ m[ops[p].key] = NoCall

\* the map entry a single Group holds for key k after the same calls: the
\* call for k that has not completed and that no Forget has hit, if any
GroupEntry(k) ==
  IF \E d \in CallIds : calls[d].key = k /\ calls[d].wg = 1 /\ ~hist[d].forgotten
  THEN CHOOSE d \in CallIds :
         calls[d].key = k /\ calls[d].wg = 1 /\ ~hist[d].forgotten
  ELSE NoCall

\* C11 -- Sharded equivalence: in every reachable state of a ShardedGroup the
\* shard a key routes to holds for that key exactly the entry a single Group
\* holds after the same calls and no other shard holds an entry for it, so
\* every caller attaches to the call it would attach to in a single Group:
\* it creates a call iff no uncompleted, unforgotten call for its key existed
\* at its arrival, the executions per key are the calls created for it, and
\* every caller is handed the result and shared flag of the call it attached
\* to; a shard's mutex is only held by the completion of a call of that shard.
C11_ShardedEquivalence ==
  sg.built =>
    /\ \A k \in Keys, i \in 0..(sg.shardCount - 1) :
         shard(i).m[k] = (IF i = shardIndexOf(k, sg.shardCount)
                          THEN GroupEntry(k) ELSE NoCall)
    /\ \A o \in OpIds :
         /\ calls[ops[o].call].key = ops[o].key
         /\ ops[o].creator = ~ops[o].sawLive
         /\ HasResult(o) =>
              /\ OwnResult(o)
              /\ Head(Delivered(o)).shared =
                   (IF ops[o].creator THEN calls[ops[o].call].dups > 0 ELSE TRUE)
    /\ \A k \in Keys :
         total[k] = Cardinality({o \in OpsOn(k) : ops[o].creator})
    /\ \A i \in 0..(sg.shardCount - 1) :
         shard(i).mu # NoCall =>
           /\ shardIndexOf(calls[shard(i).mu].key, sg.shardCount) = i
           /\ calls[shard(i).mu].st = "cleanup"

\* calls for two keys complete on two shards at once, each under the mutex
\* of its own shard
C11_Witness ==
  /\ sg.built
  /\ \E c, d \in CallIds :
       /\ calls[c].key = keyA /\ calls[d].key = keyB
       /\ shard(shardIndex(keyA)).mu = c
       /\ shard(shardIndex(keyB)).mu = d
       /\ shardIndex(keyA) # shardIndex(keyB)

\* C12 -- Shard routing determinism: for every shard count n the index of a
\* key is in 0..n-1, and in a ShardedGroup every Do, DoChan and Forget for a
\* key is served by the one shard with that index, whatever ran before;
\* distinct keys may have the same index.
C12_RoutingDeterminism ==
  /\ \A k \in RoutedKeys, n \in 1..(MaxShardReq + 1) :
       shardIndexOf(k, n) \in 0..(n - 1)
  /\ sg.built =>
       \A k \in Keys :
         /\ sg.routed[k] \subseteq {shardIndexOf(k, sg.shardCount)}
         /\ sg.routed[k] \subseteq 0..(sg.shardCount - 1)
         /\ \A c \in CallIds : calls[c].key = k /\ calls[c].wg = 1 =>
              \/ hist[c].forgotten
              \/ shard(shardIndexOf(k, sg.shardCount)).m[k] = c

\* Do, DoChan and Forget for key-a all reached shard 0 after an operation for
\* key-b reached shard 1; key-c has the index of key-a
C12_Witness ==
  /\ sg.built
  /\ sg.routed[keyA] = {0} /\ sg.routed[keyB] = {1}
  /\ shardIndex(keyC) = shardIndex(keyA)
  /\ \E c \in CallIds : calls[c].key = keyA /\ hist[c].forgotten
  /\ \E o, p \in OpIds :
       /\ ops[o].key = keyA /\ ops[p].key = keyB /\ p < o

\* the shard count the options ask for: the last WithShardCount wins
Requested(opts) ==
  IF opts = <<>> THEN DefaultShardCount ELSE opts[Len(opts)].shardCount

\* C13 -- Minimum shard floor: a constructed ShardedGroup has max(2, r)
\* shards, r being the requested count (the default 2 without an option), so
\* a request of 0 or 1 gives 2; and no step changes the number of shards.
C13_ShardFloor ==
  /\ [](sg.built =>
         /\ sg.shardCount = (IF Requested(sg.opts) > 2
                              THEN Requested(sg.opts) ELSE 2)
         /\ Len(sg.shards) = sg.shardCount
         /\ (Requested(sg.opts) \in {0, 1} => sg.shardCount = 2)
         /\ (sg.opts = <<>> => sg.shardCount = 2))
  /\ [][sg.built => /\ sg'.built
                     /\ sg'.opts = sg.opts
                     /\ sg'.shardCount = sg.shardCount
                     /\ Len(sg'.shards) = Len(sg.shards)]_vars

\* built with WithShardCount(1), two shards, and callers have been served
C13_Witness ==
  /\ sg.built
  /\ sg.opts = <<WithShardCount(1)>>
  /\ sg.shardCount = 2 /\ Len(sg.shards) = 2
  /\ \E o \in OpIds : HasResult(o)

\* C21 (as claimed) -- No leaked entries: every key present in the map has a
\* work function execution that has not yet finished, so once all work
\* functions have returned the map is empty.
C21_EntryHasRunningFn ==
  /\ \A k \in Keys : m[k] # NoCall => FnPending(m[k])
  /\ (\A c \in CallIds : ~FnPending(c)) => \A k \in Keys : m[k] = NoCall

\* C21 (amended) -- No leaked entries: every key present in the map has a call
\* for that key that has not completed: its work function is executing, or
\* has returned and its doCall has not yet taken the mutex to signal
\* completion and delete the entry; no Forget has hit that call.  Hence once
\* every call has completed, the map is empty.
C21_EntryIsUncompleted ==
  /\ \A k \in Keys :
       m[k] # NoCall =>
         /\ m[k] \in CallIds
         /\ calls[m[k]].key = k
         /\ calls[m[k]].wg = 1
         /\ calls[m[k]].st \in {"running", "returned"}
         /\ ~hist[m[k]].forgotten
  /\ (\A c \in CallIds : calls[c].wg = 0) => \A k \in Keys : m[k] = NoCall

\* calls for both keys, one of them forgotten while executing, have all
\* completed and the map is empty
C21_Witness ==
  /\ \E c, d \in CallIds :
       /\ calls[c].key = keyA /\ hist[c].forgotten /\ calls[c].st = "done"
       /\ calls[d].key = keyB /\ ~hist[d].forgotten /\ calls[d].st = "done"
  /\ \A c \in CallIds : calls[c].wg = 0
  /\ \A k \in Keys : m[k] = NoCall
  /\ mu = NoCall
====
